---- MODULE Spec2Model ----
(***************************************************************************)
(* EyeHealth: the request / retry / parse pipelines around the external    *)
(* vision API, the image ingestion that feeds them and the session state   *)
(* they read.  The repository holds four near-duplicate programs; a run of *)
(* the model is a run of one of them, fixed by `variant`:                  *)
(*   "scan"     src/src/main.jsx:16-325    analyzeRetinaScan, fetchWithRetry *)
(*   "retina"   src/src/main.jsx:326-864   analyzeRetina, fetchWithBackoff *)
(*   "analyzer" src/RetinaAnalyzer.jsx     analyzeImage                    *)
(*   "cli"      src/simulate_analysis.js   runAnalysis                     *)
(* A React render is taken to follow every state update at once, so that a *)
(* handler reads (closes over) the state of the moment the user acts.      *)
(*                                                                         *)
(* The surroundings of a run (the files the user has at hand, what the     *)
(* transport, the auth backend and the store's listeners can answer, how   *)
(* many analyses the user lets overlap, whether the user has reports of an *)
(* earlier session and whether the view is torn down) are fixed by         *)
(* `scenario`; the program's steps are the same in every scenario.         *)
(***************************************************************************)
EXTENDS Integers, Sequences, FiniteSets, TLC

\* ------------------------------------------------------------------ bounds
\* How many analyze invocations may be unfinished at the same time.
MaxInFlight == 2
\* How many documents the store accepts before it refuses further writes.
MaxDocs == 1
\* The last reading of the clock: no analysis is submitted that could read
\* Date.now() later.
MaxStamp == 4
\* The longest text the model's answer is drawn from, in characters.
MaxText == 4

\* ------------------------------------------------------- program constants
FetchWithRetryMax == 3
FetchWithBackoffMax == 5
AnalyzeImageMax == 3
\* the pass after which analyzeImage's catch gives up
AnalyzeImageLast == 2
RunAnalysisMax == 3
\* base of the backoff, in milliseconds
BaseDelay == 1000
\* Math.random() * 1000 lies in [0, 1000): its largest whole millisecond
JitterMax == 999
\* 5 * 1024 * 1024
MaxFileSize == 5242880
\* "max 10MB", the ceiling the upload area of main.jsx's first program names
AdvertisedMaxSize == 10485760

Variants == {"scan", "retina", "analyzer", "cli", "display"}

\* ------------------------------------------------------------------- files
\* The files a user may hand to the application: two small images, an image
\* above every ceiling the variants name (5MB, 10MB), and a non-image.
Files == {"img", "alt", "big", "doc"}
NoFile == "none"

FileType(f) ==
    CASE f = "img" -> "image/png"
      [] f = "alt" -> "image/jpeg"
      [] f = "big" -> "image/jpeg"
      [] OTHER     -> "application/pdf"

FileSize(f) ==
    CASE f = "img" -> 204800
      [] f = "alt" -> 307200
      [] f = "big" -> 11534336
      [] OTHER     -> 1024

\* file.type.startsWith('image/')
StartsWithImage(t) == t \in {"image/png", "image/jpeg"}

\* ------------------------------------------------------------ the transport
\* What one HTTP attempt can come back with: a network exception, an HTTP
\* error status, or HTTP success whose envelope carries a text, no text, or
\* (schema-constrained mode) a text that is not valid JSON.
Outcomes == {"net", "h429", "h500", "h400", "okText", "okEmpty", "okBadJson"}
Ok(o) == o \in {"okText", "okEmpty", "okBadJson"}
Transient == {"net", "h429", "h500"}

\* What the auth backend can do to a bootstrap.
AuthAnswers == {"noConfig", "initThrows", "signInFails", "tokenRejected",
                "signedIn", "signedOut"}

\* What the store can do to a snapshot listener: deliver a snapshot, or end
\* the listener with an error.
SnapshotAnswers == {"deliver", "fail"}

\* ---------------------------------------------------------------- scenarios
Scenarios == {"flaky", "intake", "session", "overlap"}

\* the files the user has at hand.  In RetinaAnalyzer.jsx, which runs one
\* analysis at a time, what overlaps is the choice of a file with the read
\* or the analysis of another: there the user has two images it accepts.
UserFiles(sc, v) ==
    IF sc = "intake" THEN Files \ {"alt"}
    ELSE IF sc = "overlap" /\ v = "analyzer" THEN {"img", "alt"}
    ELSE {"img"}
\* what the transport can answer; only the schema-constrained pipeline
\* parses the text as JSON
Transport(sc, v) ==
    IF sc = "flaky"
    THEN IF v = "retina" THEN Outcomes ELSE Outcomes \ {"okBadJson"}
    ELSE {"okText"}
\* what the auth backend can answer
AuthBackend(sc) == IF sc = "session" THEN AuthAnswers ELSE {"signedIn"}
\* how many analyses the user lets overlap
Lanes(sc) == IF sc = "overlap" THEN MaxInFlight ELSE 1
\* what the store can answer a listener with
Snapshots(sc) == IF sc = "session" THEN SnapshotAnswers ELSE {"deliver"}
\* whether the user tears the view down
TearsDown(sc) == sc = "session"
\* whether the store holds a report of an earlier session of user "uid"
Returning(sc) == sc \in {"session", "overlap"}

\* -------------------------------------------------------------------- texts
\* A text is a sequence of characters, of which the model keeps the ones
\* the parsing tells apart: the three labels as one character each (and
\* one of them in lower case), a letter, a blank and a line feed.
Letters == {"Classification:", "classification:", "Description:", "Recommendation:", "x"}
WhiteSpace == {" ", "\n"}
Alphabet == Letters \cup WhiteSpace

RECURSIVE TextsOf(_)
TextsOf(n) ==
    IF n = 0 THEN {<<>>}
    ELSE LET shorter == TextsOf(n - 1)
         IN  shorter \cup {Append(t, c) : t \in {u \in shorter : Len(u) = n - 1}, c \in Alphabet}

\* analysisResult is set, and ResultDisplay mounted, for a truthy text only
Texts == TextsOf(MaxText) \ {<<>>}

RECURSIVE Pow2(_)
Pow2(n) == IF n = 0 THEN 1 ELSE 2 * Pow2(n - 1)

VARIABLES
    variant,         \* which of the four programs runs
    scenario,        \* the surroundings of the run
    imageFile,       \* useState: the selected file, NoFile for null
    base64Image,     \* useState (analyzer): the file whose bytes are encoded
    imagePreview,    \* useState (retina): the file whose data-URI is held
    analysisResult,  \* useState: the file the shown analysis is of, NoFile for null
    isLoading,       \* useState
    error,           \* useState: the message shown, "" for null
    isAuthReady,     \* useState
    userId,          \* useState: "" for null
    db,              \* useState: the store handle is set
    authPc,          \* where the auth bootstrap stands
    inv,             \* the analyze invocations, by slot
    reads,           \* FileReader reads in flight that feed the preview state
    store,           \* the documents of the store, in order of creation
    crashed,         \* a render or an effect threw
    mounted,         \* the component tree is mounted
    signIn,          \* how the sign-in went: "none" so far, "ok", "failed"
    listener,        \* the collection owner the snapshot listener is on, "" for none
    history,         \* useState: the reports shown (history / reports)
    isSaving,        \* useState (analyzer)
    text,            \* ResultDisplay's text prop, a sequence of characters
    rendered,        \* the three values ResultDisplay shows, <<>> before it renders
    report,          \* the fields of the saved report, <<>> before the save
    activeTab        \* useState (analyzer): "analyze" or "history"

env == <<variant, scenario>>
payload == <<base64Image, isSaving>>
ui == <<imageFile, payload, imagePreview, analysisResult, isLoading, error>>
session == <<isAuthReady, userId, db, authPc, signIn>>
backend == <<store, listener, history>>
life == <<crashed, mounted>>
display == <<text, rendered, report, activeTab>>
vars == <<variant, scenario, imageFile, base64Image, imagePreview, analysisResult,
          isLoading, error, isAuthReady, userId, db, authPc, inv, reads, store, crashed,
          mounted, signIn, listener, history, isSaving, text, rendered, report,
          activeTab>>

Slots == 1 .. MaxInFlight

\* An invocation slot nobody uses.  Beside the locals of the code (pc, file,
\* attempt, the closure's captures in cap) an invocation carries a record of
\* what happened to it: attempts (the fetch calls issued), last (the latest
\* outcome), hist (see Summary), wait (the latest wait in ms, 0: none),
\* rising (each wait so far exceeded the one before) and end.
Idle ==
    [pc |-> "idle", file |-> NoFile, attempt |-> 0, attempts |-> 0, last |-> "none",
     hist |-> "none", wait |-> 0, rising |-> TRUE, end |-> "none", stamp |-> 0,
     cap |-> [ready |-> FALSE, db |-> FALSE, user |-> "", preview |-> NoFile]]

\* the slot a new invocation takes: the first of the scenario's lanes
FirstFree(s) ==
    /\ s <= Lanes(scenario)
    /\ inv[s].pc = "idle"
    /\ \A t \in Slots : t < s => inv[t].pc # "idle"

\* The summary of an invocation's failed attempts so far: "none", the one
\* transient kind they all were, "transient" for a mix of transient kinds,
\* "other" once a failure that is not transient is among them.
Summary(h, o) ==
    IF o = "okText" THEN h
    ELSE IF o \notin Transient \/ h = "other" THEN "other"
    ELSE IF h = "none" \/ h = o THEN o
    ELSE "transient"

\* ---------------------------------------------------------------- the store
\* The report of an earlier session that a returning user "uid" finds in the
\* store, in the shape the variant writes: main.jsx keeps the preview's
\* data URL and a Date.now() number, RetinaAnalyzer.jsx a redacted
\* placeholder, the file's name and a server timestamp (<<seconds>>, or <<>>
\* for the null a pending write reads as).
Archive(sc, v) ==
    IF ~Returning(sc) THEN <<>>
    ELSE CASE v = "retina" ->
                << [id |-> 1, coll |-> "uid", userId |-> "uid", imagePreview |-> "img",
                    analysis |-> "img", timestamp |-> 1] >>
           [] v = "analyzer" ->
                << [id |-> 1, coll |-> "uid", userId |-> "uid", parsedData |-> "img",
                    imagePreviewUri |-> [mime |-> "image/png", data |-> "redacted"],
                    originalImageFileName |-> "img", timestamp |-> <<1>>] >>
           [] OTHER -> <<>>

\* the greatest number of a set of naturals, 0 for none
Greatest(S) == IF S = {} THEN 0 ELSE CHOOSE n \in S : \A m \in S : m <= n

\* A number no document and no invocation has yet: what Date.now(), the
\* server's clock or an auto-generated id gives next.
Fresh(docs, invs) ==
    1 + Greatest({docs[i].id : i \in 1 .. Len(docs)} \cup {invs[t].stamp : t \in Slots})

\* the write has not settled yet: only the local cache holds the document
Pending(v, d) == v = "analyzer" /\ d.timestamp = <<>>
\* the documents the server holds
Committed(v, docs) == SelectSeq(docs, LAMBDA d : ~Pending(v, d))

\* the documents of collection c (artifacts/<appId>/users/<c>/...)
Collection(docs, c) == SelectSeq(docs, LAMBDA d : d.coll = c)

\* The number a document is ordered by.  "client": what the listener's
\* comparator reads, (x.timestamp || 0) in main.jsx and
\* (x.timestamp?.seconds || 0) in RetinaAnalyzer.jsx.  "query": the order
\* of orderBy("timestamp"), in which a pending server timestamp is the
\* latest of all.
SortKey(v, d, by) ==
    IF v = "analyzer"
    THEN IF d.timestamp = <<>>
         THEN (IF by = "query" THEN d.id + 1 ELSE 0)
         ELSE d.timestamp[1]
    ELSE d.timestamp

\* a sort with the comparator's operands exchanged: ascending and stable
RECURSIVE SortAsc(_, _, _)
SortAsc(v, q, by) ==
    IF q = <<>> THEN <<>>
    ELSE LET rest == SortAsc(v, SubSeq(q, 1, Len(q) - 1), by)
             d    == q[Len(q)]
             k    == Cardinality({i \in 1 .. Len(rest) :
                                     SortKey(v, rest[i], by) <= SortKey(v, d, by)})
         IN  SubSeq(rest, 1, k) \o <<d>> \o SubSeq(rest, k + 1, Len(rest))

\* Array.prototype.sort((a, b) => key(b) - key(a)): descending and stable.
RECURSIVE SortDesc(_, _, _)
SortDesc(v, q, by) ==
    IF q = <<>> THEN <<>>
    ELSE LET rest == SortDesc(v, SubSeq(q, 1, Len(q) - 1), by)
             d    == q[Len(q)]
             k    == Cardinality({i \in 1 .. Len(rest) :
                                     SortKey(v, rest[i], by) >= SortKey(v, d, by)})
         IN  SubSeq(rest, 1, k) \o <<d>> \o SubSeq(rest, k + 1, Len(rest))

\* The orders a snapshot may hand the documents of a collection over in:
\* any order for main.jsx's plain query, timestamp descending for the
\* orderBy query of RetinaAnalyzer.jsx.
Deliveries(v, docs) ==
    IF v = "analyzer" THEN {SortDesc(v, docs, "query")}
    ELSE {[i \in 1 .. Len(docs) |-> docs[p[i]]] : p \in Permutations(1 .. Len(docs))}

\* the history effect without its guard clause: the listener is registered
\* on whatever path the template string gives
HistoryEffect_Unguarded ==
    listener' =
        IF <<isAuthReady', db', userId'>> = <<isAuthReady, db, userId>> THEN listener
        ELSE IF mounted THEN (IF userId' = "" THEN "null" ELSE userId')
        ELSE ""

\* The history effect (deps isAuthReady, db, userId), run with the render
\* that follows a change of its deps: the cleanup unsubscribes, and a
\* listener on the user's collection is registered once all three are set.
HistoryEffect ==
    listener' =
        IF <<isAuthReady', db', userId'>> = <<isAuthReady, db, userId>> THEN listener
        ELSE IF mounted /\ isAuthReady' /\ db' /\ userId' # "" THEN userId'
        ELSE ""

\* the texts the model's answer is drawn from; <<>> where no ResultDisplay
\* is modelled
ResultTexts(sc, v) ==
    IF v # "display" THEN {<<>>}
    ELSE IF sc = "intake" THEN Texts
    ELSE {<<"x">>}

Init ==
    /\ variant \in Variants
    /\ scenario \in Scenarios
    /\ imageFile = NoFile
    /\ base64Image = NoFile
    /\ imagePreview = NoFile
    /\ analysisResult = NoFile
    /\ isLoading = FALSE
    /\ error = ""
    /\ isAuthReady = FALSE
    /\ userId = ""
    /\ db = FALSE
    /\ authPc = "start"
    /\ inv = [s \in Slots |-> Idle]
    /\ reads = {}
    /\ store = Archive(scenario, variant)
    /\ crashed = FALSE
    /\ mounted = TRUE
    /\ signIn = "none"
    /\ listener = ""
    /\ history = <<>>
    /\ isSaving = FALSE
    /\ text \in ResultTexts(scenario, variant)
    /\ rendered = <<>>
    /\ report = <<>>
    /\ activeTab = "analyze"

\* --------------------------------------------------- invocation bookkeeping
\* the attempt in flight came back with o
Settle(r, o) == [r EXCEPT !.last = o, !.hist = Summary(@, o)]
\* the invocation is over, ending as e
Finish(r, e) == [r EXCEPT !.pc = "done", !.end = e]
\* one more fetch() goes out
Issue(r) == [r EXCEPT !.pc = "fetch", !.attempts = @ + 1]
\* the loop is about to go round after a wait of d milliseconds (0: at once)
Waited(r, d) == [r EXCEPT !.wait = d, !.rising = @ /\ (r.attempt = 0 \/ d > r.wait)]
\* the for statement's attempt++
Round(r) == [r EXCEPT !.attempt = @ + 1]

\* text is truthy: the envelope carries a non-empty text
HasText(o) == o \in {"okText", "okBadJson"}
\* a parse that accepts any text
JsonParses_AnyText(o) == HasText(o)
\* JSON.parse(jsonText) returns
JsonParses(o) == o = "okText"

\* Math.pow(2, attempt) * 1000 + Math.random() * 1000, with jitter j
JitterDelay(attempt, j) == Pow2(attempt) * BaseDelay + j
\* Math.pow(2, attempt) * 1000
PlainDelay(attempt) == Pow2(attempt) * BaseDelay
\* the values Math.random() * 1000 is sampled at
Jitters == {0, JitterMax}

UserCanAct == mounted

\* no invocation has ended without having returned yet (see Returned)
NoneDone == \A s \in Slots : inv[s].pc # "done"

\* ============================================================ variant "scan"
\* The mount effect: without configuration the UI is released at once; an
\* initializeApp or getAuth that throws is caught by nothing, so React
\* unmounts the tree; otherwise the auth listener is registered and the
\* sign-in started.
Scan_AuthEffect ==
    /\ NoneDone /\ variant = "scan" /\ mounted /\ authPc = "start"
    /\ \E a \in AuthBackend(scenario) :
         CASE a = "noConfig" ->
                /\ isAuthReady' = TRUE
                /\ authPc' = "done"
                /\ UNCHANGED life
           [] a = "initThrows" ->
                /\ crashed' = TRUE
                /\ mounted' = FALSE
                /\ authPc' = "done"
                /\ UNCHANGED isAuthReady
           [] OTHER ->
                /\ authPc' = "listen"
                /\ UNCHANGED <<isAuthReady, life>>
    /\ UNCHANGED <<env, display, ui, userId, db, signIn, inv, reads, backend>>

\* onAuthStateChanged's callback: the signed-in user's uid, or a random one.
Scan_AuthStateChanged ==
    /\ NoneDone /\ variant = "scan" /\ mounted /\ authPc = "listen"
    /\ \E a \in AuthBackend(scenario) \ {"noConfig", "initThrows"} :
         /\ userId' = IF a = "signedIn" THEN "uid" ELSE "random"
         /\ signIn' = CASE a = "signedIn" -> "ok"
                         [] a = "signedOut" -> signIn
                         [] OTHER -> "failed"
    /\ isAuthReady' = TRUE
    /\ UNCHANGED <<env, display, ui, db, authPc, inv, reads, backend, life>>

\* a fetchWithRetry whose catch swallows on the last pass as well
FetchWithRetryStep_SwallowsLast(attempt, o) ==
    IF Ok(o) THEN "return"
    ELSE IF o = "h429" /\ attempt < FetchWithRetryMax - 1 THEN "wait"
    ELSE "again"

\* What one pass of fetchWithRetry's loop does with its attempt's outcome:
\* "return" the response, "wait" and go round, go round "again" at once (the
\* catch swallowed what the try threw), or "throw" to analyzeRetinaScan.
FetchWithRetryStep(attempt, o) ==
    IF Ok(o) THEN "return"
    ELSE IF o = "h429" /\ attempt < FetchWithRetryMax - 1 THEN "wait"
    ELSE IF attempt = FetchWithRetryMax - 1 THEN "throw"
    ELSE "again"

\* handleFileChange up to its first await: the file becomes the selected
\* image and its read starts.  analyzeRetinaScan is the closure of this
\* render, so the isAuthReady it will test is the one of now.
Scan_Select(s, f) ==
    /\ imageFile' = f
    /\ inv' = [inv EXCEPT ![s] =
                 [Idle EXCEPT !.pc = "read", !.file = f, !.cap.ready = isAuthReady]]
    /\ UNCHANGED <<env, display, payload, imagePreview, analysisResult, isLoading, error,
                   session, reads, backend, life>>

\* The file input's onChange; the input is disabled while isLoading.
Scan_HandleFileChange ==
    /\ NoneDone /\ variant = "scan" /\ UserCanAct /\ ~isLoading
    /\ \E s \in Slots, f \in UserFiles(scenario, variant) : FirstFree(s) /\ Scan_Select(s, f)

\* The dropzone's onDrop; the dropzone is never disabled.
Scan_HandleDrop ==
    /\ NoneDone /\ variant = "scan" /\ UserCanAct
    /\ \E f \in UserFiles(scenario, variant) :
         IF StartsWithImage(FileType(f))
         THEN \E s \in Slots : FirstFree(s) /\ Scan_Select(s, f)
         ELSE /\ error' = "InvalidType"
              /\ UNCHANGED <<env, display, imageFile, payload, imagePreview, analysisResult,
                             isLoading, session, inv, reads, backend, life>>

\* analyzeRetinaScan raising the loading flag before its guard
Scan_Refuse_LoadingFirst(s) ==
    /\ error' = "AuthNotReady"
    /\ isLoading' = TRUE
    /\ inv' = [inv EXCEPT ![s] = Finish(@, "validation")]
    /\ UNCHANGED analysisResult

\* analyzeRetinaScan's guard has failed: the message, and nothing else.
Scan_Refuse(s) ==
    /\ error' = "AuthNotReady"
    /\ inv' = [inv EXCEPT ![s] = Finish(@, "validation")]
    /\ UNCHANGED <<isLoading, analysisResult>>

\* The top of fetchWithRetry's loop, r.attempt being the pass to start: the
\* next fetch goes out; were the loop to run out, fetchWithRetry would
\* return undefined and response.json() throw into analyzeRetinaScan's catch.
Scan_LoopTop(s, r) ==
    IF r.attempt < FetchWithRetryMax
    THEN /\ inv' = [inv EXCEPT ![s] = Issue(r)]
         /\ UNCHANGED <<analysisResult, isLoading, error>>
    ELSE /\ error' = "ApiError"
         /\ isLoading' = FALSE
         /\ inv' = [inv EXCEPT ![s] = Finish(r, "fellOut")]
         /\ UNCHANGED analysisResult

\* fileToBase64 settles.  A read error is reported by handleFileChange's
\* catch.  Otherwise analyzeRetinaScan runs up to its first fetch.
Scan_FileRead(s) ==
    /\ NoneDone /\ variant = "scan" /\ inv[s].pc = "read"
    /\ \/ /\ error' = "FileError"
          /\ isLoading' = FALSE
          /\ inv' = [inv EXCEPT ![s] = Finish(@, "fileError")]
          /\ UNCHANGED analysisResult
       \/ /\ ~inv[s].cap.ready
          /\ Scan_Refuse(s)
       \/ /\ inv[s].cap.ready
          /\ isLoading' = TRUE
          /\ error' = ""
          /\ analysisResult' = NoFile
          /\ inv' = [inv EXCEPT ![s] = Issue(@)]
    /\ UNCHANGED <<env, display, imageFile, payload, imagePreview, session, reads, backend,
                   life>>

\* The attempt in flight settles with outcome o; j is the jitter drawn if
\* the loop waits.  After fetchWithRetry returns, analyzeRetinaScan shows
\* the text or reports that there is none; what fetchWithRetry throws it
\* reports; its finally resets isLoading.
Scan_FetchSettled(s, o, j) ==
    /\ NoneDone /\ variant = "scan" /\ inv[s].pc = "fetch"
    /\ LET r    == Settle(inv[s], o)
           step == FetchWithRetryStep(inv[s].attempt, o)
       IN  CASE step = "return" /\ HasText(o) ->
                  /\ analysisResult' = r.file
                  /\ isLoading' = FALSE
                  /\ inv' = [inv EXCEPT ![s] = Finish(r, "success")]
                  /\ UNCHANGED error
             [] step = "return" /\ ~HasText(o) ->
                  /\ error' = "NoText"
                  /\ isLoading' = FALSE
                  /\ inv' = [inv EXCEPT ![s] = Finish(r, "error")]
                  /\ UNCHANGED analysisResult
             [] step = "wait" ->
                  /\ inv' = [inv EXCEPT ![s] =
                               [Waited(r, JitterDelay(r.attempt, j)) EXCEPT !.pc = "wait"]]
                  /\ UNCHANGED <<analysisResult, isLoading, error>>
             [] step = "again" ->
                  Scan_LoopTop(s, Round(Waited(r, 0)))
             [] OTHER ->
                  /\ error' = "ApiError"
                  /\ isLoading' = FALSE
                  /\ inv' = [inv EXCEPT ![s] = Finish(r, "error")]
                  /\ UNCHANGED analysisResult
    /\ UNCHANGED <<env, display, imageFile, payload, imagePreview, session, reads, backend,
                   life>>

\* setTimeout's callback: the wait is over and the next attempt goes out.
Scan_TimerFired(s) ==
    /\ NoneDone /\ variant = "scan" /\ inv[s].pc = "wait"
    /\ Scan_LoopTop(s, Round(inv[s]))
    /\ UNCHANGED <<env, display, imageFile, payload, imagePreview, session, reads, backend,
                   life>>

ScanNext ==
    \/ Scan_AuthEffect
    \/ Scan_AuthStateChanged
    \/ Scan_HandleFileChange
    \/ Scan_HandleDrop
    \/ \E s \in Slots : Scan_FileRead(s)
    \/ \E s \in Slots, o \in Transport(scenario, variant), j \in Jitters :
         Scan_FetchSettled(s, o, j)
    \/ \E s \in Slots : Scan_TimerFired(s)

\* ========================================================== variant "retina"
\* initFirebase up to its first await: parsing the configuration or
\* initializeApp may throw, which the catch reports while releasing the UI;
\* otherwise the store handle is set and the sign-in awaited.
Retina_InitFirebase ==
    /\ NoneDone /\ variant = "retina" /\ mounted /\ authPc = "start"
    /\ \E a \in AuthBackend(scenario) :
         IF a = "initThrows"
         THEN /\ error' = "Backend"
              /\ isAuthReady' = TRUE
              /\ authPc' = "done"
              /\ UNCHANGED db
         ELSE /\ db' = TRUE
              /\ authPc' = "signin"
              /\ UNCHANGED <<error, isAuthReady>>
    /\ UNCHANGED <<env, display, imageFile, payload, imagePreview, analysisResult, isLoading,
                   userId, signIn, inv, reads, store, history, life>>
    /\ HistoryEffect

\* The awaited sign-in settles: a rejection goes to the catch, a success
\* registers the auth listener.
Retina_SignInSettled ==
    /\ NoneDone /\ variant = "retina" /\ mounted /\ authPc = "signin"
    /\ \E a \in AuthBackend(scenario) \ {"initThrows"} :
         IF a \in {"signedIn", "signedOut"}
         THEN /\ authPc' = "listen"
              /\ signIn' = "ok"
              /\ UNCHANGED <<error, isAuthReady>>
         ELSE /\ error' = "Backend"
              /\ isAuthReady' = TRUE
              /\ authPc' = "done"
              /\ signIn' = "failed"
    /\ UNCHANGED <<env, display, imageFile, payload, imagePreview, analysisResult, isLoading,
                   userId, db, inv, reads, store, history, life>>
    /\ HistoryEffect

\* onAuthStateChanged's callback: the user's uid, or generateFallbackUUID().
Retina_AuthStateChanged ==
    /\ NoneDone /\ variant = "retina" /\ mounted /\ authPc = "listen"
    /\ \E a \in AuthBackend(scenario) \cap {"signedIn", "signedOut"} :
         userId' = IF a = "signedIn" THEN "uid" ELSE "random"
    /\ isAuthReady' = TRUE
    /\ UNCHANGED <<env, display, ui, db, authPc, signIn, inv, reads, store, history, life>>
    /\ HistoryEffect

\* fetchWithBackoff giving up one pass early (i === maxRetries - 2)
FetchWithBackoffStep_OneShort(i, o) ==
    IF Ok(o) THEN "return"
    ELSE IF i >= FetchWithBackoffMax - 2 THEN "throw"
    ELSE "wait"

\* What one pass of fetchWithBackoff's loop does with its attempt's outcome:
\* "return" the parsed envelope, "wait" and go round (the 429 / 5xx branch
\* and the catch wait alike), or "throw" to analyzeRetina.
FetchWithBackoffStep(i, o) ==
    IF Ok(o) THEN "return"
    ELSE IF o \in {"h429", "h500"} /\ i < FetchWithBackoffMax - 1 THEN "wait"
    ELSE IF i = FetchWithBackoffMax - 1 THEN "throw"
    ELSE "wait"

\* handleFileChange's else branch: the message, and the selection cleared.
Retina_Reject(msg) ==
    /\ imageFile' = NoFile
    /\ imagePreview' = NoFile
    /\ error' = msg
    /\ UNCHANGED <<reads, analysisResult>>

\* The file input's onChange (the input is never disabled): an image
\* becomes the selected file and its preview read starts; anything else
\* clears the selection.
Retina_HandleFileChange ==
    /\ NoneDone /\ variant = "retina" /\ UserCanAct
    /\ \E f \in UserFiles(scenario, variant) :
         IF StartsWithImage(FileType(f))
         THEN /\ imageFile' = f
              /\ reads' = reads \cup {f}
              /\ analysisResult' = NoFile
              /\ error' = ""
              /\ UNCHANGED imagePreview
         ELSE Retina_Reject("InvalidType")
    /\ UNCHANGED <<env, display, payload, isLoading, session, inv, backend, life>>

\* reader.onload of a preview read
Retina_PreviewLoaded ==
    /\ NoneDone /\ variant = "retina"
    /\ \E f \in reads :
         /\ imagePreview' = f
         /\ reads' = reads \ {f}
    /\ UNCHANGED <<env, display, imageFile, payload, analysisResult, isLoading, error,
                   session, inv, backend, life>>

\* handleSubmit up to its first await; analyzeRetina is the closure of this
\* render, with the db, userId and imagePreview of now.
Retina_HandleSubmit ==
    /\ NoneDone /\ variant = "retina" /\ UserCanAct
    /\ imageFile # NoFile /\ ~isLoading /\ isAuthReady
    /\ Fresh(store, inv) + Lanes(scenario) - 1 <= MaxStamp
    /\ \E s \in Slots :
         /\ FirstFree(s)
         /\ inv' = [inv EXCEPT ![s] =
                      [Idle EXCEPT !.pc = "read", !.file = imageFile,
                                   !.cap = [ready |-> isAuthReady, db |-> db,
                                            user |-> userId, preview |-> imagePreview]]]
    /\ UNCHANGED <<env, display, ui, session, reads, backend, life>>

\* analyzeRetina's guard has failed: the message, and nothing else.
Retina_Refuse(s) ==
    /\ error' = "AuthNotReady"
    /\ inv' = [inv EXCEPT ![s] = Finish(@, "validation")]
    /\ UNCHANGED <<isLoading, analysisResult>>

\* The top of fetchWithBackoff's loop, r.attempt being the pass to start:
\* the next fetch goes out; were the loop to run out, fetchWithBackoff would
\* return undefined and result.candidates throw into analyzeRetina's catch.
Retina_LoopTop(s, r) ==
    IF r.attempt < FetchWithBackoffMax
    THEN /\ inv' = [inv EXCEPT ![s] = Issue(r)]
         /\ UNCHANGED <<analysisResult, isLoading, error>>
    ELSE /\ error' = "AnalysisFailed"
         /\ isLoading' = FALSE
         /\ inv' = [inv EXCEPT ![s] = Finish(r, "fellOut")]
         /\ UNCHANGED analysisResult

\* fileToBase64 settles.  A read error is reported by handleSubmit's catch.
\* Otherwise analyzeRetina runs up to its first fetch.
Retina_FileRead(s) ==
    /\ NoneDone /\ variant = "retina" /\ inv[s].pc = "read"
    /\ \/ /\ error' = "FileError"
          /\ isLoading' = FALSE
          /\ inv' = [inv EXCEPT ![s] = Finish(@, "fileError")]
          /\ UNCHANGED analysisResult
       \/ /\ ~inv[s].cap.db \/ inv[s].cap.user = ""
          /\ Retina_Refuse(s)
       \/ /\ inv[s].cap.db /\ inv[s].cap.user # ""
          /\ isLoading' = TRUE
          /\ error' = ""
          /\ analysisResult' = NoFile
          /\ inv' = [inv EXCEPT ![s] = Issue(@)]
    /\ UNCHANGED <<env, display, imageFile, payload, imagePreview, session, reads, backend,
                   life>>

\* The attempt in flight settles.  After fetchWithBackoff returns,
\* analyzeRetina throws on a missing text, JSON.parse throws on a text that
\* is no JSON, and a parsed result is shown and handed to setDoc; whatever
\* is thrown the catch reports, and the finally resets isLoading.
Retina_FetchSettled(s, o, j) ==
    /\ NoneDone /\ variant = "retina" /\ inv[s].pc = "fetch"
    /\ LET r    == Settle(inv[s], o)
           step == FetchWithBackoffStep(inv[s].attempt, o)
       IN  CASE step = "return" /\ HasText(o) /\ JsonParses(o) ->
                  /\ analysisResult' = r.file
                  /\ inv' = [inv EXCEPT ![s] =
                               [r EXCEPT !.pc = "save", !.stamp = Fresh(store, inv)]]
                  /\ UNCHANGED <<isLoading, error>>
             [] step = "return" /\ ~(HasText(o) /\ JsonParses(o)) ->
                  /\ error' = "AnalysisFailed"
                  /\ isLoading' = FALSE
                  /\ inv' = [inv EXCEPT ![s] = Finish(r, "error")]
                  /\ UNCHANGED analysisResult
             [] step = "wait" ->
                  /\ inv' = [inv EXCEPT ![s] =
                               [Waited(r, JitterDelay(r.attempt, j)) EXCEPT !.pc = "wait"]]
                  /\ UNCHANGED <<analysisResult, isLoading, error>>
             [] OTHER ->
                  /\ error' = "AnalysisFailed"
                  /\ isLoading' = FALSE
                  /\ inv' = [inv EXCEPT ![s] = Finish(r, "error")]
                  /\ UNCHANGED analysisResult
    /\ UNCHANGED <<env, display, imageFile, payload, imagePreview, session, reads, backend,
                   life>>

Retina_TimerFired(s) ==
    /\ NoneDone /\ variant = "retina" /\ inv[s].pc = "wait"
    /\ Retina_LoopTop(s, Round(inv[s]))
    /\ UNCHANGED <<env, display, imageFile, payload, imagePreview, session, reads, backend,
                   life>>

\* The document analyzeRetina hands to setDoc, under a new id in the
\* collection of the closure's userId; r.stamp is what Date.now() gave.
Retina_Doc(r) ==
    [id |-> r.stamp, coll |-> r.cap.user, userId |-> r.cap.user,
     imagePreview |-> r.cap.preview, analysis |-> r.file, timestamp |-> r.stamp]

\* the store takes one more document
StoreAccepts ==
    Len(Committed(variant, store)) - Len(Archive(scenario, variant)) < MaxDocs

\* setDoc on the reference of the latest document instead of a new one
Retina_SetDocSettled_SameRef(s) ==
    /\ NoneDone /\ variant = "retina" /\ inv[s].pc = "save"
    /\ store' = IF store = <<>> THEN <<Retina_Doc(inv[s])>>
                ELSE [store EXCEPT ![Len(store)] = Retina_Doc(inv[s])]
    /\ isLoading' = FALSE
    /\ inv' = [inv EXCEPT ![s] = Finish(@, "success")]
    /\ UNCHANGED <<env, display, imageFile, payload, imagePreview, analysisResult, error,
                   session, reads, listener, history, life>>

\* setDoc settles: the document is in the store, or the rejection goes to
\* analyzeRetina's catch; the finally resets isLoading.
Retina_SetDocSettled(s) ==
    /\ NoneDone /\ variant = "retina" /\ inv[s].pc = "save"
    /\ \/ /\ StoreAccepts
          /\ store' = Append(store, Retina_Doc(inv[s]))
          /\ isLoading' = FALSE
          /\ inv' = [inv EXCEPT ![s] = Finish(@, "success")]
          /\ UNCHANGED error
       \/ /\ error' = "AnalysisFailed"
          /\ isLoading' = FALSE
          /\ inv' = [inv EXCEPT ![s] = Finish(@, "saveError")]
          /\ UNCHANGED store
    /\ UNCHANGED <<env, display, imageFile, payload, imagePreview, analysisResult, session,
                   reads, listener, history, life>>

\* onSnapshot's callback: the delivered documents, sorted, become the
\* history shown.
Retina_SnapshotDelivered ==
    /\ NoneDone /\ variant = "retina" /\ listener # ""
    /\ "deliver" \in Snapshots(scenario)
    /\ \E q \in Deliveries(variant, Collection(store, listener)) :
         history' = SortDesc(variant, q, "client")
    /\ UNCHANGED <<env, display, ui, session, inv, reads, store, listener, life>>

\* onSnapshot's error callback only logs; the listener is over.
Retina_SnapshotFailed ==
    /\ NoneDone /\ variant = "retina" /\ listener # ""
    /\ "fail" \in Snapshots(scenario)
    /\ listener' = ""
    /\ UNCHANGED <<env, display, ui, session, inv, reads, store, history, life>>

\* a click on an item of the history list shows its analysis
Retina_HistoryClick ==
    /\ NoneDone /\ variant = "retina" /\ UserCanAct
    /\ \E i \in 1 .. Len(history) : analysisResult' = history[i].analysis
    /\ UNCHANGED <<env, display, imageFile, payload, imagePreview, isLoading, error, session,
                   inv, reads, backend, life>>

RetinaNext ==
    \/ Retina_InitFirebase
    \/ Retina_SignInSettled
    \/ Retina_AuthStateChanged
    \/ Retina_HandleFileChange
    \/ Retina_PreviewLoaded
    \/ Retina_HandleSubmit
    \/ \E s \in Slots : Retina_FileRead(s)
    \/ \E s \in Slots, o \in Transport(scenario, variant), j \in Jitters :
         Retina_FetchSettled(s, o, j)
    \/ \E s \in Slots : Retina_TimerFired(s)
    \/ \E s \in Slots : Retina_SetDocSettled(s)
    \/ Retina_SnapshotDelivered
    \/ Retina_SnapshotFailed
    \/ Retina_HistoryClick

\* ======================================================== variant "analyzer"
\* The mount effect: without an apiKey in the configuration the UI is
\* released at once; a throwing initialisation is only logged; otherwise the
\* store handle is set and the auth listener registered.  A rejected custom
\* token is only logged, and the listener does nothing for a null user
\* while a token is configured.
Analyzer_AuthEffect ==
    /\ NoneDone /\ variant = "analyzer" /\ mounted /\ authPc = "start"
    /\ \E a \in AuthBackend(scenario) :
         CASE a = "noConfig" ->
                /\ isAuthReady' = TRUE
                /\ authPc' = "done"
                /\ UNCHANGED <<db, signIn>>
           [] a = "initThrows" ->
                /\ authPc' = "done"
                /\ UNCHANGED <<isAuthReady, db, signIn>>
           [] a = "tokenRejected" ->
                /\ db' = TRUE
                /\ authPc' = "listenToken"
                /\ signIn' = "failed"
                /\ UNCHANGED isAuthReady
           [] OTHER ->
                /\ db' = TRUE
                /\ authPc' = "listen"
                /\ UNCHANGED <<isAuthReady, signIn>>
    /\ UNCHANGED <<env, display, ui, userId, inv, reads, store, history, life>>
    /\ HistoryEffect

\* onAuthStateChanged's callback without a configured token: a user gives
\* the uid; a null user starts the anonymous sign-in.
Analyzer_AuthStateChanged ==
    /\ NoneDone /\ variant = "analyzer" /\ mounted /\ authPc = "listen"
    /\ \E a \in AuthBackend(scenario) \cap {"signedIn", "signedOut", "signInFails"} :
         IF a = "signedIn"
         THEN /\ userId' = "uid"
              /\ isAuthReady' = TRUE
              /\ signIn' = "ok"
              /\ UNCHANGED authPc
         ELSE /\ authPc' = "anon"
              /\ UNCHANGED <<userId, isAuthReady, signIn>>
    /\ UNCHANGED <<env, display, ui, db, inv, reads, store, history, life>>
    /\ HistoryEffect

\* signInAnonymously settles: then / catch set the uid or a random one, and
\* finally releases the UI.
Analyzer_AnonSignInSettled ==
    /\ NoneDone /\ variant = "analyzer" /\ mounted /\ authPc = "anon"
    /\ \E a \in AuthBackend(scenario) \cap {"signedIn", "signedOut", "signInFails"} :
         /\ userId' = IF a = "signInFails" THEN "random" ELSE "uid"
         /\ signIn' = IF a = "signInFails" THEN "failed" ELSE "ok"
    /\ isAuthReady' = TRUE
    /\ authPc' = "listen"
    /\ UNCHANGED <<env, display, ui, db, inv, reads, store, history, life>>
    /\ HistoryEffect

\* an analyzeImage whose catch always waits and goes round
AnalyzeImageStep_NeverGivesUp(attempt, o) ==
    IF Ok(o) /\ HasText(o) THEN "return" ELSE "wait"

\* What one pass of analyzeImage's loop does with its attempt's outcome:
\* "return" with the text shown, "wait" and go round, or "fail".
AnalyzeImageStep(attempt, o) ==
    IF Ok(o) /\ HasText(o) THEN "return"
    ELSE IF attempt < AnalyzeImageLast THEN "wait"
    ELSE "fail"

\* handleFileChange dropping the selection when it refuses a file
Analyzer_Reject_Clears(msg) ==
    /\ error' = msg
    /\ imageFile' = NoFile
    /\ UNCHANGED <<analysisResult, reads>>

\* handleFileChange's early returns: the message, and nothing else.
Analyzer_Reject(msg) ==
    /\ error' = msg
    /\ UNCHANGED <<imageFile, analysisResult, reads>>

\* The top of analyzeImage's loop, r.attempt being the pass to start: the
\* next fetch goes out; were the loop to run out, analyzeImage would return
\* with isLoading left as it is.
Analyzer_LoopTop(s, r) ==
    IF r.attempt < AnalyzeImageMax
    THEN inv' = [inv EXCEPT ![s] = Issue(r)]
    ELSE inv' = [inv EXCEPT ![s] = Finish(r, "fellOut")]

\* handleFileChange up to its await: a non-image or a file above 5MB is
\* refused; an accepted file becomes the selected one and its read starts.
Analyzer_HandleFileChange ==
    /\ NoneDone /\ variant = "analyzer" /\ UserCanAct
    /\ \E f \in UserFiles(scenario, variant) :
         CASE ~StartsWithImage(FileType(f)) ->
                Analyzer_Reject("InvalidType")
           [] StartsWithImage(FileType(f)) /\ FileSize(f) > MaxFileSize ->
                Analyzer_Reject("TooLarge")
           [] OTHER ->
                /\ error' = ""
                /\ imageFile' = f
                /\ analysisResult' = NoFile
                /\ reads' = reads \cup {f}
    /\ UNCHANGED <<env, display, payload, imagePreview, isLoading, session, inv, backend,
                   life>>

\* fileToBase64 settles in handleFileChange.  The render that follows
\* dereferences imageFile.type whenever base64Image is set: with no
\* selected file it throws and React unmounts the tree.
Analyzer_FileReadSettled ==
    /\ NoneDone /\ variant = "analyzer"
    /\ \E f \in reads :
         /\ reads' = reads \ {f}
         /\ \/ /\ base64Image' = f
               /\ crashed' = (crashed \/ (mounted /\ imageFile = NoFile))
               /\ mounted' = (mounted /\ imageFile # NoFile)
               /\ listener' = IF imageFile = NoFile THEN "" ELSE listener
               /\ UNCHANGED error
            \/ /\ error' = "FileError"
               /\ UNCHANGED <<base64Image, life, listener>>
    /\ UNCHANGED <<env, display, imageFile, isSaving, imagePreview, analysisResult, isLoading,
                   session, inv, store, history>>

\* The "Remove Image" button, rendered while base64Image is set.
Analyzer_RemoveImage ==
    /\ NoneDone /\ variant = "analyzer" /\ UserCanAct
    /\ base64Image # NoFile
    /\ imageFile' = NoFile
    /\ base64Image' = NoFile
    /\ analysisResult' = NoFile
    /\ UNCHANGED <<env, display, isSaving, imagePreview, isLoading, error, session, inv, reads,
                   backend, life>>

\* analyzeImage's guard has failed: the message, and nothing else.
Analyzer_Refuse(s) ==
    /\ error' = "NoImage"
    /\ inv' = [inv EXCEPT ![s] = Finish(Idle, "validation")]
    /\ UNCHANGED <<isLoading, analysisResult>>

\* The "Run AI Analysis" button (disabled without an encoded image, while
\* loading or saving and before auth is ready) runs analyzeImage up to its
\* first fetch.  The bytes sent are base64Image's.
Analyzer_AnalyzeImage ==
    /\ NoneDone /\ variant = "analyzer" /\ UserCanAct
    /\ base64Image # NoFile /\ ~isLoading /\ isAuthReady /\ ~isSaving
    /\ \E s \in Slots :
         /\ FirstFree(s)
         /\ IF base64Image = NoFile
            THEN Analyzer_Refuse(s)
            ELSE /\ isLoading' = TRUE
                 /\ error' = ""
                 /\ analysisResult' = NoFile
                 /\ inv' = [inv EXCEPT ![s] = Issue([Idle EXCEPT !.file = base64Image])]
    /\ UNCHANGED <<env, display, imageFile, payload, imagePreview, session, reads, backend,
                   life>>

\* The document saveReport hands to addDoc, in the collection of the
\* render's userId: the parsed fields of the analysis shown, a placeholder
\* for the image, the file's name and a server timestamp still to come.
Analyzer_Doc ==
    [id |-> Fresh(store, inv), coll |-> userId, userId |-> userId,
     parsedData |-> analysisResult,
     imagePreviewUri |-> [mime |-> FileType(imageFile), data |-> "redacted"],
     originalImageFileName |-> imageFile, timestamp |-> <<>>]

\* an analyzeImage that hands the report to addDoc by itself
Analyzer_FetchSettled_AutoSaves(s, o) ==
    /\ NoneDone /\ variant = "analyzer" /\ inv[s].pc = "fetch"
    /\ analysisResult' = inv[s].file
    /\ isLoading' = FALSE
    /\ inv' = [inv EXCEPT ![s] = Finish(Settle(@, o), "success")]
    /\ store' = Append(store, [Analyzer_Doc EXCEPT !.parsedData = inv[s].file])
    /\ UNCHANGED <<env, display, imageFile, payload, imagePreview, error, session, reads,
                   listener, history, life>>

\* The attempt in flight settles: a text is shown; anything else is thrown
\* to the loop's catch, which waits and goes round or gives up.
Analyzer_FetchSettled(s, o) ==
    /\ NoneDone /\ variant = "analyzer" /\ inv[s].pc = "fetch"
    /\ LET r    == Settle(inv[s], o)
           step == AnalyzeImageStep(inv[s].attempt, o)
       IN  CASE step = "return" ->
                  /\ analysisResult' = r.file
                  /\ isLoading' = FALSE
                  /\ inv' = [inv EXCEPT ![s] = Finish(r, "success")]
                  /\ UNCHANGED error
             [] step = "wait" ->
                  /\ inv' = [inv EXCEPT ![s] =
                               [Waited(r, PlainDelay(r.attempt)) EXCEPT !.pc = "wait"]]
                  /\ UNCHANGED <<analysisResult, isLoading, error>>
             [] OTHER ->
                  /\ error' = "AnalysisFailed"
                  /\ isLoading' = FALSE
                  /\ inv' = [inv EXCEPT ![s] = Finish(r, "error")]
                  /\ UNCHANGED analysisResult
    /\ UNCHANGED <<env, display, imageFile, payload, imagePreview, session, reads, backend,
                   life>>

Analyzer_TimerFired(s) ==
    /\ NoneDone /\ variant = "analyzer" /\ inv[s].pc = "wait"
    /\ Analyzer_LoopTop(s, Round(inv[s]))
    /\ UNCHANGED <<env, display, ui, session, reads, backend, life>>

\* The "Save Report" button under a shown analysis (not rendered while
\* loading, disabled while saving) runs saveReport up to its await: without db or userId it only reports;
\* otherwise isSaving is raised and, unless reading imageFile.type throws
\* for a null imageFile, the document is handed to addDoc, from when on the
\* local cache shows it as a pending write.
Analyzer_SaveReport ==
    /\ NoneDone /\ variant = "analyzer" /\ UserCanAct
    /\ analysisResult # NoFile /\ ~isLoading /\ ~isSaving
    /\ IF ~db \/ userId = ""
       THEN /\ error' = "DbNotReady"
            /\ UNCHANGED <<isSaving, store>>
       ELSE /\ isSaving' = TRUE
            /\ error' = ""
            /\ store' = IF imageFile = NoFile THEN store ELSE Append(store, Analyzer_Doc)
    /\ UNCHANGED <<env, display, imageFile, base64Image, imagePreview, analysisResult, isLoading,
                   session, inv, reads, listener, history, life>>

\* the place of the pending write in the store
PendingAt(i) == i \in 1 .. Len(store) /\ Pending(variant, store[i])

\* a saveReport that clears the analysis and the image in its finally
Analyzer_AddDocSettled_ClearsAlways ==
    /\ NoneDone /\ variant = "analyzer"
    /\ \E i \in 1 .. Len(store) :
         /\ PendingAt(i)
         /\ store' = SubSeq(store, 1, i - 1) \o SubSeq(store, i + 1, Len(store))
         /\ error' = "SaveFailed"
    /\ analysisResult' = NoFile
    /\ base64Image' = NoFile
    /\ imageFile' = NoFile
    /\ isSaving' = FALSE
    /\ UNCHANGED <<env, display, imagePreview, isLoading, session, inv, reads, listener, history,
                   life>>

\* addDoc settles.  Resolved: the server has set the timestamp, and the
\* analysis and the image are cleared.  Rejected: the pending write is
\* rolled back and the failure reported.  The finally lowers isSaving.
Analyzer_AddDocSettled ==
    /\ NoneDone /\ variant = "analyzer"
    /\ \E i \in 1 .. Len(store) :
         /\ PendingAt(i)
         /\ \/ /\ StoreAccepts
               /\ store' = [store EXCEPT ![i].timestamp = <<Fresh(store, inv)>>]
               /\ analysisResult' = NoFile
               /\ base64Image' = NoFile
               /\ imageFile' = NoFile
               /\ UNCHANGED error
            \/ /\ store' = SubSeq(store, 1, i - 1) \o SubSeq(store, i + 1, Len(store))
               /\ error' = "SaveFailed"
               /\ UNCHANGED <<analysisResult, base64Image, imageFile>>
    /\ isSaving' = FALSE
    /\ UNCHANGED <<env, display, imagePreview, isLoading, session, inv, reads, listener, history,
                   life>>

\* a listener callback that also clears the message
Analyzer_SnapshotDelivered_ClearsError ==
    /\ NoneDone /\ variant = "analyzer" /\ listener # ""
    /\ "deliver" \in Snapshots(scenario)
    /\ \E q \in Deliveries(variant, Collection(store, listener)) :
         history' = SortDesc(variant, q, "client")
    /\ error' = ""
    /\ UNCHANGED <<env, display, imageFile, payload, imagePreview, analysisResult, isLoading,
                   session, inv, reads, store, listener, life>>

\* onSnapshot's callback: the delivered documents, sorted, become the
\* reports shown.
Analyzer_SnapshotDelivered ==
    /\ NoneDone /\ variant = "analyzer" /\ listener # ""
    /\ "deliver" \in Snapshots(scenario)
    /\ \E q \in Deliveries(variant, Collection(store, listener)) :
         history' = SortDesc(variant, q, "client")
    /\ UNCHANGED <<env, display, ui, session, inv, reads, store, listener, life>>

\* onSnapshot's error callback reports the failure; the listener is over.
Analyzer_SnapshotFailed ==
    /\ NoneDone /\ variant = "analyzer" /\ listener # ""
    /\ "fail" \in Snapshots(scenario)
    /\ listener' = ""
    /\ error' = "HistoryFailed"
    /\ UNCHANGED <<env, display, imageFile, payload, imagePreview, analysisResult, isLoading,
                   session, inv, reads, store, history, life>>

\* the "History" tab: the analysis shown is dropped
Analyzer_HistoryTab ==
    /\ NoneDone /\ variant = "analyzer" /\ UserCanAct
    /\ analysisResult' = NoFile
    /\ UNCHANGED <<env, display, imageFile, payload, imagePreview, isLoading, error, session,
                   inv, reads, backend, life>>

AnalyzerNext ==
    \/ Analyzer_AuthEffect
    \/ Analyzer_AuthStateChanged
    \/ Analyzer_AnonSignInSettled
    \/ Analyzer_HandleFileChange
    \/ Analyzer_FileReadSettled
    \/ Analyzer_RemoveImage
    \/ Analyzer_AnalyzeImage
    \/ \E s \in Slots, o \in Transport(scenario, variant) : Analyzer_FetchSettled(s, o)
    \/ \E s \in Slots : Analyzer_TimerFired(s)
    \/ Analyzer_SaveReport
    \/ Analyzer_AddDocSettled
    \/ Analyzer_SnapshotDelivered
    \/ Analyzer_SnapshotFailed
    \/ Analyzer_HistoryTab

\* ============================================================= variant "cli"
\* What one pass of runAnalysis's loop does with its attempt's outcome:
\* only a network exception is waited on and retried; an HTTP error status
\* is printed and ends the run, as does a response with or without text.
RunAnalysisStep(attempt, o) ==
    IF o = "net"
    THEN IF attempt < RunAnalysisMax - 1 THEN "wait" ELSE "throw"
    ELSE IF ~Ok(o) THEN "apiError"
    ELSE IF HasText(o) THEN "success"
    ELSE "warning"

\* runAnalysis up to its first fetch: a missing image file ends the run.
Cli_RunAnalysis ==
    /\ NoneDone /\ variant = "cli" /\ inv[1].pc = "idle"
    /\ \/ inv' = [inv EXCEPT ![1] = Finish(Idle, "fileError")]
       \/ inv' = [inv EXCEPT ![1] = Issue([Idle EXCEPT !.file = "img"])]
    /\ UNCHANGED <<env, display, ui, session, reads, backend, life>>

Cli_FetchSettled(o) ==
    /\ NoneDone /\ variant = "cli" /\ inv[1].pc = "fetch"
    /\ LET r    == Settle(inv[1], o)
           step == RunAnalysisStep(inv[1].attempt, o)
       IN  IF step = "wait"
           THEN inv' = [inv EXCEPT ![1] =
                          [Waited(r, PlainDelay(r.attempt)) EXCEPT !.pc = "wait"]]
           ELSE inv' = [inv EXCEPT ![1] =
                          Finish(r, IF step = "throw" THEN "error" ELSE step)]
    /\ UNCHANGED <<env, display, ui, session, reads, backend, life>>

Cli_TimerFired ==
    /\ NoneDone /\ variant = "cli" /\ inv[1].pc = "wait"
    /\ LET r == Round(inv[1])
       IN  inv' = [inv EXCEPT ![1] =
                     IF r.attempt < RunAnalysisMax THEN Issue(r) ELSE Finish(r, "fellOut")]
    /\ UNCHANGED <<env, display, ui, session, reads, backend, life>>

CliNext ==
    \/ Cli_RunAnalysis
    \/ \E o \in Transport(scenario, variant) : Cli_FetchSettled(o)
    \/ Cli_TimerFired

\* ========================================================= variant "display"
\* ResultDisplay, the component of RetinaAnalyzer.jsx that shows an analysis,
\* on its own: it renders the model's text, its Save button hands the values
\* it shows to saveReport, and the saved report is viewed from the history.

\* the /i flag: the character is the label in either case
IsLabel(c, label) ==
    \/ c = label
    \/ c = "classification:" /\ label = "Classification:"

\* where the regular expression's literal first matches, 0 for nowhere
FirstLabel(t, label) ==
    LET hits == {i \in 1 .. Len(t) : IsLabel(t[i], label)}
    IN  IF hits = {} THEN 0 ELSE CHOOSE i \in hits : \A h \in hits : i <= h

\* \s* from position j: the position after the whitespace taken, all of it
SkipSpace(t, j) ==
    CHOOSE k \in j .. Len(t) + 1 :
        /\ k = Len(t) + 1 \/ t[k] \notin WhiteSpace
        /\ \A m \in j .. k - 1 : t[m] \in WhiteSpace

\* \s*(?:\n|$) matches at position k: whitespace, given back as far as
\* needed, and then a line feed or the end of the text
TailMatches(t, k) ==
    LET e == SkipSpace(t, k)
    IN  e = Len(t) + 1 \/ \E m \in k .. e - 1 : t[m] = "\n"

\* (.*?) from position j: the fewest characters, none of them a line feed,
\* after which the rest of the expression matches
Capture(t, j) ==
    LET k == CHOOSE k \in j .. Len(t) + 1 :
                 /\ TailMatches(t, k)
                 /\ \A m \in j .. k - 1 : t[m] # "\n" /\ ~TailMatches(t, m)
    IN  SubSeq(t, j, k - 1)

\* text.match(/<label>\s*(.*?)\s*(?:\n|$)/i): <<>> for null, else the group
Match(t, label) ==
    LET i == FirstLabel(t, label)
    IN  IF i = 0 THEN <<>> ELSE <<Capture(t, SkipSpace(t, i + 1))>>

\* String.prototype.trim
RECURSIVE Trim(_)
Trim(t) ==
    IF t = <<>> THEN t
    ELSE IF Head(t) \in WhiteSpace THEN Trim(Tail(t))
    ELSE IF t[Len(t)] \in WhiteSpace THEN Trim(SubSeq(t, 1, Len(t) - 1))
    ELSE t

\* the placeholders of ResultDisplay
NotAvailable == <<"N/A">>
ReviewManually == <<"Review", " ", "manually.">>

\* the three values ResultDisplay extracts from its text
ResultDisplay(t) ==
    LET classificationMatch == Match(t, "Classification:")
        descriptionMatch    == Match(t, "Description:")
        recommendationMatch == Match(t, "Recommendation:")
    IN  [classification |-> IF classificationMatch # <<>>
                            THEN Trim(classificationMatch[1]) ELSE NotAvailable,
         description    |-> IF descriptionMatch # <<>>
                            THEN Trim(descriptionMatch[1]) ELSE t,
         recommendation |-> IF recommendationMatch # <<>>
                            THEN Trim(recommendationMatch[1]) ELSE ReviewManually]

\* displayReportContent's tempText for the report it views
TempText(r) ==
    <<"Classification:", " ">> \o r.classification
        \o <<"\n", "Description:", " ">> \o r.description
        \o <<"\n", "Recommendation:", " ">> \o r.recommendation

\* the analysis arrives and ResultDisplay renders it
Display_Render ==
    /\ NoneDone /\ variant = "display"
    /\ activeTab = "analyze" /\ rendered = <<>>
    /\ rendered' = <<ResultDisplay(text)>>
    /\ UNCHANGED <<env, ui, session, inv, reads, backend, life, text, report, activeTab>>

\* Save Report: the values shown go to saveReport, which spreads them into
\* the document it adds
Display_SaveReport ==
    /\ NoneDone /\ variant = "display"
    /\ activeTab = "analyze" /\ rendered # <<>> /\ report = <<>>
    /\ report' = rendered
    /\ UNCHANGED <<env, ui, session, inv, reads, backend, life, text, rendered, activeTab>>

\* the History tab and a click on the report: ResultDisplay renders the
\* text displayReportContent rebuilds from the report's fields
Display_ViewReport ==
    /\ NoneDone /\ variant = "display"
    /\ activeTab = "analyze" /\ report # <<>>
    /\ activeTab' = "history"
    /\ text' = TempText(report[1])
    /\ rendered' = <<ResultDisplay(text')>>
    /\ UNCHANGED <<env, ui, session, inv, reads, backend, life, report>>

DisplayNext ==
    \/ Display_Render
    \/ Display_SaveReport
    \/ Display_ViewReport

\* ================================================================ the system
\* An invocation that has ended returns: its locals are gone and its slot
\* is free again.  This happens before anything else does.
Returned(s) ==
    /\ inv[s].pc = "done"
    /\ inv' = [inv EXCEPT ![s] = Idle]
    /\ UNCHANGED <<env, display, ui, session, reads, backend, life>>

\* an unmount whose cleanup does not unsubscribe
Unmount_KeepsListener ==
    /\ NoneDone /\ variant \in {"scan", "retina", "analyzer"}
    /\ mounted /\ TearsDown(scenario)
    /\ mounted' = FALSE
    /\ UNCHANGED <<env, display, ui, session, inv, reads, backend, crashed>>

\* The user leaves: React unmounts the tree and runs the effects' cleanups,
\* of which the history effect's unsubscribes the snapshot listener.
Unmount ==
    /\ NoneDone /\ variant \in {"scan", "retina", "analyzer"}
    /\ mounted /\ TearsDown(scenario)
    /\ mounted' = FALSE
    /\ listener' = ""
    /\ UNCHANGED <<env, display, ui, session, inv, reads, store, history, crashed>>

Next ==
    \/ ScanNext
    \/ RetinaNext
    \/ AnalyzerNext
    \/ CliNext
    \/ DisplayNext
    \/ Unmount
    \/ \E s \in Slots : Returned(s)

Spec == Init /\ [][Next]_vars

\* the steps of the three auth bootstraps
AuthSteps ==
    \/ Scan_AuthEffect
    \/ Scan_AuthStateChanged
    \/ Retina_InitFirebase
    \/ Retina_SignInSettled
    \/ Retina_AuthStateChanged
    \/ Analyzer_AuthEffect
    \/ Analyzer_AuthStateChanged
    \/ Analyzer_AnonSignInSettled

\* The event loop: a mount effect runs, a promise that has settled resumes
\* its awaiter and a registered auth listener is called, however often other
\* callbacks run in between; a finished activation returns.
FairSpec ==
    /\ Spec
    /\ SF_vars(AuthSteps)
    /\ WF_vars(\E s \in Slots : Returned(s))

\* what the event loop owes the invocation in slot s: the callback of its
\* file read, of its request, of its timer and of its setDoc
PipelineSteps(s) ==
    \/ Scan_FileRead(s)
    \/ \E o \in Transport(scenario, variant), j \in Jitters : Scan_FetchSettled(s, o, j)
    \/ Scan_TimerFired(s)
    \/ Retina_FileRead(s)
    \/ \E o \in Transport(scenario, variant), j \in Jitters : Retina_FetchSettled(s, o, j)
    \/ Retina_TimerFired(s)
    \/ Retina_SetDocSettled(s)
    \/ \E o \in Transport(scenario, variant) : Analyzer_FetchSettled(s, o)
    \/ Analyzer_TimerFired(s)

\* The event loop with a transport and a store that answer: every request,
\* timer, file read and write that is under way settles and its
\* continuation runs, however often other callbacks run in between.
LiveSpec ==
    /\ Spec
    /\ \A s \in Slots : SF_vars(PipelineSteps(s))
    /\ SF_vars(Analyzer_AddDocSettled)
    /\ WF_vars(\E s \in Slots : Returned(s))

\* ==================================================================== claims
\* the three pipelines of the user interface
Pipelines == {"scan", "retina", "analyzer"}
\* the cap on HTTP attempts each program's loop states
MaxRetries(v) ==
    CASE v = "scan"     -> FetchWithRetryMax
      [] v = "retina"   -> FetchWithBackoffMax
      [] v = "analyzer" -> AnalyzeImageMax
      [] OTHER          -> RunAnalysisMax
\* the invocation in slot s has just ended
Ended(s) == inv[s].pc = "done"
\* every attempt of the invocation in slot s so far failed, all in the way o
AllFailedAs(s, o) == inv[s].hist = o /\ inv[s].last = o

\* C1: when the transport answers every request with HTTP 429, an analyze
\* invocation never issues more attempts than its cap, and it ends only
\* after exactly that many attempts (3 in fetchWithRetry and analyzeImage,
\* 5 in fetchWithBackoff), in the error state: a message is set, no result
\* is set (none is shown but one the user has picked from the history list
\* of main.jsx's second program), the loading flag is down; it never ends in
\* success.
C1_All429Exhausts ==
    \A s \in Slots :
        (variant \in Pipelines /\ AllFailedAs(s, "h429")) =>
            /\ inv[s].attempts <= (IF variant = "retina" THEN 5 ELSE 3)
            /\ Ended(s) =>
                 /\ inv[s].attempts = (IF variant = "retina" THEN 5 ELSE 3)
                 /\ inv[s].end = "error"
                 /\ error # ""
                 /\ analysisResult # NoFile =>
                      /\ variant = "retina"
                      /\ \E i \in 1 .. Len(history) : history[i].analysis = analysisResult
                 /\ ~isLoading

\* C1's case: fetchWithBackoff has been answered 429 five times and
\* analyzeRetina has ended.
C1_Witness ==
    /\ variant = "retina"
    /\ \E s \in Slots : Ended(s) /\ AllFailedAs(s, "h429") /\ inv[s].attempts = 5

\* C2: if the transport fails transiently N times (N below the cap; network
\* exception, 429 or 5xx) and then succeeds, the invocation does not end in
\* the error state, it has made exactly N + 1 attempts, and each wait
\* between two attempts was longer than the one before.
C2_TransientThenSuccess ==
    \A s \in Slots :
        (/\ variant \in Pipelines
         /\ Ended(s)
         /\ inv[s].last = "okText"
         /\ inv[s].hist \in Transient \cup {"none", "transient"}) =>
            /\ inv[s].end # "error"
            /\ inv[s].attempt < MaxRetries(variant)
            /\ inv[s].attempts = inv[s].attempt + 1
            /\ inv[s].rising

\* C3: an invocation that has received an HTTP 400 makes no further attempt:
\* it has ended there, in the error state with a message shown, and after
\* exactly one attempt when the 400 answered its first request.
C3_PermanentNotRetried ==
    \A s \in Slots :
        (variant \in Pipelines /\ inv[s].last = "h400") =>
            /\ Ended(s)
            /\ inv[s].end = "error"
            /\ error # ""
            /\ inv[s].hist = "other" /\ inv[s].attempt = 0 => inv[s].attempts = 1

\* C4: in every program, the command-line one included, an attempt that
\* failed transiently (network exception, 429, 5xx) while attempts remain
\* is followed by a retry: the invocation has not ended there.
C4_TransientRetried ==
    \A s \in Slots :
        (inv[s].last \in Transient /\ inv[s].attempts < MaxRetries(variant)) =>
            inv[s].pc \in {"wait", "fetch"}

\* C5: the retry that follows failed attempt k comes after a wait of
\* base * 2^k + j milliseconds, base = 1000 and 0 <= j <= base: an
\* invocation whose request of pass k + 1 is out has last waited that long.
C5_BackoffBeforeRetry ==
    \A s \in Slots :
        (variant \in Pipelines /\ inv[s].pc = "fetch" /\ inv[s].attempt >= 1) =>
            /\ inv[s].wait >= 1000 * Pow2(inv[s].attempt - 1)
            /\ inv[s].wait <= 1000 * Pow2(inv[s].attempt - 1) + 1000

\* C6: an invocation that has received an HTTP success without generated
\* text makes no further attempt: it has ended there, in the error state
\* with a message shown.
C6_EmptyNotRetried ==
    \A s \in Slots :
        (variant \in Pipelines /\ inv[s].last = "okEmpty") =>
            /\ Ended(s)
            /\ inv[s].end = "error"
            /\ error # ""

\* C7: in analyzeRetina, the step in which a text that is no valid JSON
\* arrives ends the invocation in the error state (a message set, the
\* result left as it is, which is null unless the user has picked a report
\* of the history list since the invocation cleared it, the loading flag
\* down), with no document written and no further attempt issued; the
\* failure is reported, not thrown on.
C7_MalformedJson ==
    [][\A s \in Slots :
          (/\ variant = "retina"
           /\ inv[s].pc = "fetch"
           /\ inv'[s] # inv[s]
           /\ inv'[s].last = "okBadJson") =>
              /\ inv'[s].pc = "done"
              /\ inv'[s].end = "error"
              /\ inv'[s].attempts = inv[s].attempts
              /\ error' # ""
              /\ analysisResult' = analysisResult
              /\ isLoading' = FALSE
              /\ store' = store]_vars

\* C7's case: analyzeRetina has ended on a text that is no valid JSON.
C7_Witness ==
    /\ variant = "retina"
    /\ \E s \in Slots : Ended(s) /\ inv[s].last = "okBadJson" /\ inv[s].end = "error"

\* C8: the step in which an invocation's precondition fails sets the
\* message, leaves the loading flag as it is and ends the invocation, which
\* has issued no HTTP request.
C8_ValidationFailure ==
    [][\A s \in Slots :
          (variant \in Pipelines /\ inv'[s].end = "validation" /\ inv[s].end # "validation") =>
              /\ inv'[s].pc = "done"
              /\ inv'[s].attempts = 0
              /\ error' # ""
              /\ isLoading' = isLoading
              /\ analysisResult' = analysisResult]_vars

\* C8's case: analyzeRetinaScan has refused to run for a file selected
\* before the session was ready.
C8_Witness ==
    /\ variant = "scan"
    /\ \E s \in Slots : Ended(s) /\ inv[s].end = "validation" /\ inv[s].file # NoFile

\* the ceiling a variant names for a file's size: 5MB in RetinaAnalyzer.jsx,
\* 10MB in main.jsx
Ceiling(v) == IF v = "analyzer" THEN MaxFileSize ELSE AdvertisedMaxSize
Acceptable(v, f) == StartsWithImage(FileType(f)) /\ FileSize(f) <= Ceiling(v)

\* C9: a file that is no image, or is larger than the variant's ceiling,
\* never is the selected image and never is what an invocation reads or
\* sends.
C9_BadFilesRejected ==
    variant \in Pipelines =>
        /\ imageFile # NoFile => Acceptable(variant, imageFile)
        /\ \A s \in Slots : inv[s].file # NoFile => Acceptable(variant, inv[s].file)

\* the step is a rejection of a file by one of the handlers
Rejects ==
    \/ Scan_HandleDrop /\ error' = "InvalidType" /\ inv' = inv
    \/ Retina_HandleFileChange /\ error' = "InvalidType"
    \/ Analyzer_HandleFileChange /\ error' \in {"InvalidType", "TooLarge"}

\* C10 as stated: a rejection leaves the selected image, its encoded payload
\* and preview, the result and the loading flag as they were, and sets the
\* message.
C10_RejectMutatesNothing ==
    [][Rejects =>
          /\ error' # ""
          /\ imageFile' = imageFile
          /\ base64Image' = base64Image
          /\ imagePreview' = imagePreview
          /\ analysisResult' = analysisResult
          /\ isLoading' = isLoading]_vars

\* C10, amended: a rejection sets the message, starts nothing and leaves
\* the result, the loading flag and the encoded payload as they were;
\* handleFileChange of RetinaAnalyzer.jsx and handleDrop leave the
\* selection as it was, while the second handleFileChange of main.jsx
\* clears the selected image and its preview.
C10_RejectFrame ==
    [][Rejects =>
          /\ error' # ""
          /\ analysisResult' = analysisResult
          /\ isLoading' = isLoading
          /\ base64Image' = base64Image
          /\ inv' = inv
          /\ reads' = reads
          /\ IF variant = "retina"
             THEN imageFile' = NoFile /\ imagePreview' = NoFile
             ELSE imageFile' = imageFile /\ imagePreview' = imagePreview]_vars

\* C10's case: RetinaAnalyzer.jsx has refused an oversized file while an
\* image was selected and encoded.
C10_Witness ==
    /\ variant = "analyzer"
    /\ error = "TooLarge"
    /\ imageFile = "img"
    /\ base64Image = "img"

\* C11: the UI never blocks indefinitely on authentication: whatever the
\* auth backend answers (no configuration, a throwing initialisation, a
\* failing anonymous or custom-token sign-in, a sign-in), isAuthReady
\* eventually becomes true, unless the view is torn down while the
\* bootstrap is still under way.
C11_AuthEventuallyReady ==
    variant \in Pipelines => <>(isAuthReady \/ (~mounted /\ authPc # "done"))

\* C12: when the sign-in has failed, the degraded ready state has a locally
\* generated identifier: in every state where isAuthReady is true after a
\* failed sign-in, userId is non-null.
C12_FallbackIdentifier ==
    (variant \in Pipelines /\ isAuthReady /\ signIn = "failed") => userId # ""

\* C13: the history subscription starts only once the session is ready: in
\* every state where a snapshot listener is registered, isAuthReady is true
\* and the store handle and the session identifier are both set.
C13_ListenerOnlyWhenReady ==
    listener # "" => (isAuthReady /\ db /\ userId # "")

\* C13's case: RetinaAnalyzer.jsx listens on the collection of the
\* identifier it generated after a failed anonymous sign-in.
C13_Witness ==
    /\ variant = "analyzer"
    /\ signIn = "failed"
    /\ listener = "random"

Delivers == Retina_SnapshotDelivered \/ Analyzer_SnapshotDelivered
\* h holds exactly the documents docs
SameDocs(h, docs) ==
    /\ Len(h) = Len(docs)
    /\ {h[i] : i \in 1 .. Len(h)} = {docs[i] : i \in 1 .. Len(docs)}
\* h is in descending order of time, a report whose server timestamp is
\* still pending being the newest
NewestFirst(h) ==
    \A i, j \in 1 .. Len(h) :
        i < j => SortKey(variant, h[i], "query") >= SortKey(variant, h[j], "query")

\* C15: after every snapshot delivery the list in UI state is the full
\* delivered snapshot, newest report first, whatever order the store
\* delivered in and also when a document's server timestamp is pending.
C15_HistoryNewestFirst ==
    [][Delivers =>
          /\ SameDocs(history', Collection(store, listener))
          /\ NewestFirst(history')]_vars

\* the document was saved in this run and the server has acknowledged it
Saved(d) ==
    /\ ~Pending(variant, d)
    /\ \A k \in 1 .. Len(Archive(scenario, variant)) : Archive(scenario, variant)[k].id # d.id
\* where the list h shows document d
Places(h, d) == {i \in 1 .. Len(h) : h[i].id = d.id}
\* the list h shows document e, of an earlier timestamp than d's, at j
EarlierAt(h, j, d) ==
    /\ ~Pending(variant, h[j])
    /\ SortKey(variant, h[j], "client") < SortKey(variant, d, "client")

\* C16 as stated: a delivery from the collection a report was saved to
\* shows the report exactly once, at a place after every report of an
\* earlier timestamp.
C16_SavedListedAfterEarlier ==
    [][Delivers =>
          \A k \in 1 .. Len(store) :
              (Saved(store[k]) /\ store[k].coll = listener) =>
                  /\ Cardinality(Places(history', store[k])) = 1
                  /\ \A i \in Places(history', store[k]), j \in 1 .. Len(history') :
                         EarlierAt(history', j, store[k]) => j < i]_vars

\* C16, amended: a delivery from the collection a report was saved to shows
\* the report exactly once, at a place before every report of an earlier
\* timestamp (the list is newest first).
C16_SavedListedBeforeEarlier ==
    [][Delivers =>
          \A k \in 1 .. Len(store) :
              (Saved(store[k]) /\ store[k].coll = listener) =>
                  /\ Cardinality(Places(history', store[k])) = 1
                  /\ \A i \in Places(history', store[k]), j \in 1 .. Len(history') :
                         EarlierAt(history', j, store[k]) => i < j]_vars

\* C16's case: the list shows a report saved in this run and, below it,
\* the report of the earlier session.
C16_Witness ==
    /\ Len(history) = 2
    /\ Saved(history[1])
    /\ history[2] = Archive(scenario, variant)[1]

\* the step is a save that the store acknowledges
SaveSucceeds ==
    \/ \E s \in Slots : Retina_SetDocSettled(s) /\ inv'[s].end = "success"
    \/ Analyzer_AddDocSettled /\ error' # "SaveFailed"

\* C17: a save appends exactly one document to what the store holds and
\* leaves every document already there as it was; no other step, a failed
\* save included, adds, changes or removes a stored document.
C17_SaveAppendsOne ==
    [][LET old == Committed(variant, store)
           new == Committed(variant, store')
       IN  /\ Len(new) >= Len(old)
           /\ \A i \in 1 .. Len(old) : new[i] = old[i]
           /\ SaveSucceeds => Len(new) = Len(old) + 1
           /\ ~SaveSucceeds => new = old]_vars

\* C17's case: RetinaAnalyzer.jsx has saved a report beside the stored one
\* of the earlier session.
C17_Witness ==
    /\ variant = "analyzer"
    /\ Len(Committed(variant, store)) = 2
    /\ Saved(store[2])

\* C18: every document in the collection of a session u carries userId = u,
\* and every report of the list shown was read from the collection of the
\* current session identifier.
C18_ReportsOfSession ==
    /\ \A i \in 1 .. Len(store) : store[i].userId = store[i].coll
    /\ \A i \in 1 .. Len(history) : history[i].coll = userId

\* the step puts a document into the store
Writes == Len(store') > Len(store)

Written(d) ==
    \A k \in 1 .. Len(Archive(scenario, variant)) : Archive(scenario, variant)[k].id # d.id
\* The files whose bytes a document holds: main.jsx's imagePreview field is
\* the data URL readAsDataURL gave, RetinaAnalyzer.jsx's imagePreviewUri a
\* data URI whose payload is the literal placeholder.
Embedded(d) ==
    IF variant = "retina" THEN {d.imagePreview} \ {NoFile}
    ELSE {d.imagePreviewUri.data} \ {"redacted"}

\* C20: the image's bytes are never stored: no document written to the
\* store holds the base64 payload of an image or a data URI embedding it.
C20_NoImageBytesStored ==
    \A i \in 1 .. Len(store) : Written(store[i]) => Embedded(store[i]) = {}

\* the step is a save that the store rejects
SaveFails ==
    \/ \E s \in Slots : Retina_SetDocSettled(s) /\ inv'[s].end = "saveError"
    \/ Analyzer_AddDocSettled /\ error' = "SaveFailed"

\* C21: the step in which a write to the store fails sets a message and
\* leaves the analysis shown and the selected image (file, encoded payload,
\* preview) as they were.
C21_FailedSaveKeepsResult ==
    [][SaveFails =>
          /\ error' # ""
          /\ analysisResult' = analysisResult
          /\ imageFile' = imageFile
          /\ base64Image' = base64Image
          /\ imagePreview' = imagePreview]_vars

\* C21's case: addDoc has been rejected and the analysis that was to be
\* saved is still shown, with its image.
C21_Witness ==
    /\ variant = "analyzer"
    /\ error = "SaveFailed"
    /\ analysisResult # NoFile
    /\ imageFile # NoFile
    /\ ~isSaving

\* the invocation in slot s has raised isLoading and not ended yet
Running(s) == inv[s].pc \in {"fetch", "wait", "save"}

InFlight == {s \in Slots : inv[s].pc = "fetch"}

\* C23: while an analysis is under way no user action starts a second one:
\* at most one HTTP attempt is in flight at any time.
C23_OneAttemptInFlight ==
    variant \in Pipelines => Cardinality(InFlight) <= 1

\* the step is a callback of the snapshot listener
SubscriptionEvent ==
    \/ Retina_SnapshotDelivered
    \/ Retina_SnapshotFailed
    \/ Analyzer_SnapshotDelivered
    \/ Analyzer_SnapshotFailed

SameLine(t, label) ==
    LET i == FirstLabel(t, label)
        ends == {e \in i + 1 .. Len(t) + 1 : e = Len(t) + 1 \/ t[e] = "\n"}
        e == CHOOSE e \in ends : \A f \in ends : e <= f
    IN  SubSeq(t, i + 1, e - 1)

\* the value the statement gives a field: the trimmed rest of the label's
\* line, or the default where the text has no such label
Stated(t, label, default) ==
    IF FirstLabel(t, label) = 0 THEN default ELSE Trim(SameLine(t, label))

\* C25: the values ResultDisplay shows for a text are, field by field, the
\* trimmed text after the field's label on the label's own line, or 'N/A',
\* the whole text and 'Review manually.' where the label is absent.
C25_FieldsFromOwnLine ==
    (variant = "display" /\ activeTab = "analyze" /\ rendered # <<>>) =>
        rendered[1] = [classification |-> Stated(text, "Classification:", NotAvailable),
                       description    |-> Stated(text, "Description:", text),
                       recommendation |-> Stated(text, "Recommendation:", ReviewManually)]

\* C30: a saved report that is viewed shows the three values it was saved
\* with: parsing the text displayReportContent rebuilds from the report's
\* fields gives those fields back.
C30_ViewedReportRoundTrips ==
    (variant = "display" /\ activeTab = "history") => rendered = report

\* C26: a saveReport that has set isSaving sets it back: whenever isSaving
\* is true in RetinaAnalyzer.jsx it is false again later, whatever the user
\* did to the image while the analysis was in flight.
C26_SavingEnds ==
    (variant = "analyzer" /\ isSaving) ~> ~isSaving

\* C27: in RetinaAnalyzer.jsx an encoded image is never held without a
\* selected file: base64Image set implies imageFile set.
C27_EncodedImpliesSelected ==
    variant = "analyzer" => (base64Image # NoFile => imageFile # NoFile)

\* C28: every report RetinaAnalyzer.jsx has written names, in
\* originalImageFileName, the file whose bytes went out in the analysis the
\* report's fields come from.
C28_ReportNamesAnalysedFile ==
    variant = "analyzer" =>
        \A i \in 1 .. Len(store) :
            Written(store[i]) => store[i].originalImageFileName = store[i].parsedData

\* the loop of the invocation in slot s has been left
LoopLeft(s) == inv[s].pc \in {"save", "done"} /\ inv[s].last # "none"

\* C29: fetchWithRetry and fetchWithBackoff never have more requests behind
\* them than maxRetries (3 and 5), they leave their loop after at least
\* one, and they leave it returning a successful response or throwing the
\* last failure: never by the loop running out, which would resolve to
\* undefined.
C29_LoopReturnsOrThrows ==
    \A s \in Slots :
        variant \in {"scan", "retina"} =>
            /\ inv[s].attempts <= MaxRetries(variant)
            /\ inv[s].end # "fellOut"
            /\ LoopLeft(s) =>
                 /\ inv[s].attempts >= 1
                 /\ inv[s].attempts = inv[s].attempt + 1
                 /\ \/ Ok(inv[s].last)
                    \/ /\ inv[s].end = "error"
                       /\ inv[s].attempts = MaxRetries(variant)

\* C29's case: fetchWithRetry has thrown the network failure of its third
\* and last request, the two before having been swallowed.
C29_Witness ==
    /\ variant = "scan"
    /\ \E s \in Slots :
         /\ Ended(s) /\ inv[s].last = "net" /\ inv[s].hist # "none"
         /\ inv[s].attempts = FetchWithRetryMax /\ inv[s].end = "error"

====
